---------------------------- MODULE Spec2Model ----------------------------
(***************************************************************************)
(* Timetable dashboard (neko556/TimeTableGenerator, timetable-frontend).   *)
(*                                                                         *)
(* The model covers                                                        *)
(*   - the label helpers sanitizeSlot and toMinutes (student and master    *)
(*     variants),                                                          *)
(*   - the grid renderer StudentTimetable,                                 *)
(*   - the grouped master renderer MasterTimetable,                        *)
(*   - the request/response state of GenerateButton, StudentLookup and     *)
(*     MasterTimetable under the page shell App.                           *)
(*                                                                         *)
(* A JavaScript string is a sequence of one-character strings, so that     *)
(* split, join, trim, the regular expression of toMinutes and parseInt are *)
(* computed character by character.  The value undefined of an optional    *)
(* field is the one-element sequence Undefined, which no string equals     *)
(* because its only element is longer than one character.  Texts that are  *)
(* never taken apart (student ids, course ids, messages) are plain strings.*)
(* part_000 holds two revisions of App: the staged one (landing stage,     *)
(* then dashboard) and the flat one (button and dashboard on one page);    *)
(* the variable revision says which one is mounted.                        *)
(***************************************************************************)
EXTENDS Integers, Sequences, FiniteSets, TLC

VARIABLES
    label,         \* the argument handed to sanitizeSlot / toMinutes
    result,        \* what the helper returned
    showButton,    \* App: the typewriter heading has finished
    generated,     \* App: useState(false), set by onGenerated
    revision,      \* which App of part_000 is mounted: "staged" or "flat"
    genLoading,    \* GenerateButton: loading
    genInFlight,   \* GenerateButton: GET /generate requests not yet settled
    studentId,     \* StudentLookup: studentId
    timetable,     \* StudentLookup: timetable (the prop of StudentTimetable)
    lookupLoading, \* StudentLookup: loading
    lookupInFlight,\* StudentLookup: GET /timetable/:id requests not yet settled
    lookupHistory, \* history: which search the value of timetable came from
    records,       \* MasterTimetable: records
    masterLoading, \* MasterTimetable: loading
    error,         \* MasterTimetable: error
    masterInFlight,\* MasterTimetable: GET /master requests not yet settled
    alertMsg,      \* the window.alert raised by the last step, "" if none
    studentView,   \* what StudentTimetable last returned
    masterView     \* what MasterTimetable last returned

vars == <<label, result, showButton, generated, revision, genLoading,
          genInFlight, studentId, timetable, lookupLoading, lookupInFlight,
          lookupHistory, records, masterLoading, error, masterInFlight, alertMsg,
          studentView, masterView>>

----------------------------------------------------------------------------
(* Bounds *)

\* longest free part of a label handed to the helpers
MaxLabelLen == 4

\* longest record list handed to StudentTimetable
MaxEntries == 3

\* longest record list held by MasterTimetable
MaxRecords == 3

\* most requests one component is let to have in flight
MaxInFlight == 2

----------------------------------------------------------------------------
(* Strings *)

Undefined == <<"undefined">>

\* undefined (or null) where an array of records is expected
NoList == <<[absent |-> TRUE]>>

Digits == {"0", "1", "2", "3", "4", "5", "6", "7", "8", "9"}

\* the characters String.prototype.trim removes, among those of the model
WhiteSpace == {" "}

\* U+2013, which the lexer of TLA+ does not accept in a string
EnDash == "ndash"

Monday == <<"M", "o", "n", "d", "a", "y">>
Tuesday == <<"T", "u", "e", "s", "d", "a", "y">>
Wednesday == <<"W", "e", "d", "n", "e", "s", "d", "a", "y">>
Thursday == <<"T", "h", "u", "r", "s", "d", "a", "y">>
Friday == <<"F", "r", "i", "d", "a", "y">>
Saturday == <<"S", "a", "t", "u", "r", "d", "a", "y">>
Sunday == <<"S", "u", "n", "d", "a", "y">>

DAY_ORDER == <<Monday, Tuesday, Wednesday, Thursday, Friday, Saturday, Sunday>>

\* Array.prototype.includes
Includes(arr, x) == \E i \in 1..Len(arr) : arr[i] = x

\* Array.prototype.indexOf, 0-based, -1 when absent
IndexOf(arr, x) ==
    IF Includes(arr, x)
    THEN (CHOOSE i \in 1..Len(arr) :
              arr[i] = x /\ \A j \in 1..(i - 1) : arr[j] # x) - 1
    ELSE -1

\* !s for a string or undefined
Falsy(s) == s = Undefined \/ s = <<>>

\* String.prototype.split with a one-character separator
RECURSIVE Split(_, _)
Split(s, sep) ==
    IF \E i \in 1..Len(s) : s[i] = sep
    THEN LET i == CHOOSE k \in 1..Len(s) :
                     s[k] = sep /\ \A j \in 1..(k - 1) : s[j] # sep
         IN  <<SubSeq(s, 1, i - 1)>> \o Split(SubSeq(s, i + 1, Len(s)), sep)
    ELSE <<s>>

\* Array.prototype.join with a one-character separator
RECURSIVE Join(_, _)
Join(parts, sep) ==
    IF Len(parts) = 0 THEN <<>>
    ELSE IF Len(parts) = 1 THEN parts[1]
    ELSE parts[1] \o <<sep>> \o Join(Tail(parts), sep)

\* String.prototype.trim
RECURSIVE Trim(_)
Trim(s) ==
    IF Len(s) > 0 /\ s[1] \in WhiteSpace THEN Trim(Tail(s))
    ELSE IF Len(s) > 0 /\ s[Len(s)] \in WhiteSpace
         THEN Trim(SubSeq(s, 1, Len(s) - 1))
    ELSE s

DigitValue(c) ==
    CASE c = "0" -> 0 [] c = "1" -> 1 [] c = "2" -> 2 [] c = "3" -> 3
      [] c = "4" -> 4 [] c = "5" -> 5 [] c = "6" -> 6 [] c = "7" -> 7
      [] c = "8" -> 8 [] c = "9" -> 9

\* parseInt(s, 10) of a string of decimal digits
RECURSIVE ParseInt(_)
ParseInt(s) ==
    IF Len(s) = 0 THEN 0
    ELSE 10 * ParseInt(SubSeq(s, 1, Len(s) - 1)) + DigitValue(s[Len(s)])

\* s.match(/^(\d{1,2}):(\d{2})/): <<hh, mm>>, or <<>> when there is no match
MatchTime(s) ==
    IF /\ Len(s) >= 5
       /\ s[1] \in Digits /\ s[2] \in Digits /\ s[3] = ":"
       /\ s[4] \in Digits /\ s[5] \in Digits
    THEN <<SubSeq(s, 1, 2), SubSeq(s, 4, 5)>>
    ELSE IF /\ Len(s) >= 4
            /\ s[1] \in Digits /\ s[2] = ":"
            /\ s[3] \in Digits /\ s[4] \in Digits
         THEN <<SubSeq(s, 1, 1), SubSeq(s, 3, 4)>>
    ELSE <<>>

----------------------------------------------------------------------------
(* StudentTimeTable.tsx: the label helpers *)

\* toMinutes with the trim() left out
toMinutes_NoTrim(slot) ==
    IF Falsy(slot) THEN 0
    ELSE LET sep   == IF Includes(slot, "-") THEN "-"
                      ELSE IF Includes(slot, EnDash) THEN EnDash ELSE "-"
             match == MatchTime(Split(slot, sep)[1])
         IN  IF match = <<>> THEN 0
             ELSE ParseInt(match[1]) * 60 + ParseInt(match[2])

\* toMinutes of the student renderer: the text before the first "-" (or, in
\* a label without "-", before the first en dash) is trimmed and matched
toMinutes(slot) ==
    IF Falsy(slot) THEN 0
    ELSE LET sep   == IF Includes(slot, "-") THEN "-"
                      ELSE IF Includes(slot, EnDash) THEN EnDash ELSE "-"
             start == Trim(Split(slot, sep)[1])
             match == MatchTime(start)
         IN  IF match = <<>> THEN 0
             ELSE ParseInt(match[1]) * 60 + ParseInt(match[2])

\* toMinutes of the master renderer: the label itself is matched
toMinutesMaster(slot) ==
    IF Falsy(slot) THEN 0
    ELSE LET match == MatchTime(slot)
         IN  IF match = <<>> THEN 0
             ELSE ParseInt(match[1]) * 60 + ParseInt(match[2])

\* sanitizeSlot with the DAY_ORDER.includes(parts[0]) test left out
sanitizeSlot_AnyPrefix(raw) ==
    IF Falsy(raw) THEN <<>>
    ELSE LET parts == Split(raw, "_")
         IN  IF Len(parts) >= 2 THEN Join(Tail(parts), "_") ELSE raw

sanitizeSlot(raw) ==
    IF Falsy(raw) THEN <<>>
    ELSE LET parts == Split(raw, "_")
         IN  IF Len(parts) >= 2 /\ Includes(DAY_ORDER, parts[1])
             THEN Join(Tail(parts), "_")
             ELSE raw

----------------------------------------------------------------------------
(* Ordered collections of the renderers *)

\* Set.prototype.add on a Set kept in insertion order
SetAdd(acc, x) == IF Includes(acc, x) THEN acc ELSE Append(acc, x)

\* Array.from(new Set(arr))
RECURSIVE Distinct(_)
Distinct(arr) ==
    IF arr = <<>> THEN <<>>
    ELSE SetAdd(Distinct(SubSeq(arr, 1, Len(arr) - 1)), arr[Len(arr)])

\* one step of a stable sort of <<key, value>> pairs: p goes after every
\* pair whose key is not greater than its own
InsertByKey(sorted, p) ==
    LET n == Cardinality({i \in 1..Len(sorted) : sorted[i][1] <= p[1]})
    IN  SubSeq(sorted, 1, n) \o <<p>> \o SubSeq(sorted, n + 1, Len(sorted))

\* Array.prototype.sort((a, b) => key(a) - key(b)) on <<key, value>> pairs;
\* the sort is stable (ECMAScript 2019)
RECURSIVE SortByKey(_)
SortByKey(pairs) ==
    IF pairs = <<>> THEN <<>>
    ELSE InsertByKey(SortByKey(SubSeq(pairs, 1, Len(pairs) - 1)),
                     pairs[Len(pairs)])

Values(pairs) == [i \in 1..Len(pairs) |-> pairs[i][2]]

Range(arr) == {arr[i] : i \in 1..Len(arr)}

----------------------------------------------------------------------------
(* StudentTimeTable.tsx: StudentTimetable *)

\* t["Time Slot"] ?? t["Time"]
SlotField(t) == IF t.TimeSlot # Undefined THEN t.TimeSlot ELSE t.Time

\* timetable.forEach(t => { const s = sanitizeSlot(..); if (s) set.add(s) })
RECURSIVE CollectSlots(_)
CollectSlots(tt) ==
    IF tt = <<>> THEN <<>>
    ELSE LET acc == CollectSlots(SubSeq(tt, 1, Len(tt) - 1))
             s   == sanitizeSlot(SlotField(tt[Len(tt)]))
         IN  IF s # <<>> THEN SetAdd(acc, s) ELSE acc

\* the columns with the sort left out
StudentTimeSlots_Unsorted(tt) == CollectSlots(tt)

\* Array.from(timeSlotsSet).sort((a, b) => toMinutes(a) - toMinutes(b))
StudentTimeSlots(tt) ==
    LET set == CollectSlots(tt)
    IN  Values(SortByKey([i \in 1..Len(set) |-> <<toMinutes(set[i]), set[i]>>]))

\* the rows taken from the days of the records instead of DAY_ORDER
StudentRows_DaysPresent(tt) ==
    SelectSeq(DAY_ORDER, LAMBDA d : \E i \in 1..Len(tt) : tt[i].Day = d)

\* the rows of the table body: DAY_ORDER.map(day => <tr key={day}>)
StudentRows(tt) == DAY_ORDER

\* grid[slot][d] = null for every column and every day of DAY_ORDER; a cell
\* is <<>> for null and <<entry>> for an entry
EmptyGrid(timeSlots) ==
    [slot \in Range(timeSlots) |-> [d \in Range(DAY_ORDER) |-> <<>>]]

\* the placement that keeps the first entry of a cell
PlaceEntry_KeepFirst(grid, entry) ==
    LET slot == sanitizeSlot(SlotField(entry))
    IN  IF slot = <<>> THEN grid
        ELSE IF ~Includes(DAY_ORDER, entry.Day) THEN grid
        ELSE IF grid[slot][entry.Day] # <<>> THEN grid
        ELSE [grid EXCEPT ![slot][entry.Day] = <<entry>>]

\* one turn of timetable.forEach(entry => ...) over the grid
PlaceEntry(grid, entry) ==
    LET slot == sanitizeSlot(SlotField(entry))
    IN  IF slot = <<>> THEN grid
        ELSE IF ~Includes(DAY_ORDER, entry.Day) THEN grid
        ELSE [grid EXCEPT ![slot][entry.Day] = <<entry>>]

RECURSIVE PlaceEntries(_, _)
PlaceEntries(grid, tt) ==
    IF tt = <<>> THEN grid
    ELSE PlaceEntries(PlaceEntry(grid, Head(tt)), Tail(tt))

\* the component with the timeSlots.length === 0 return left out
StudentTimetable_NoSlotCheck(id, tt) ==
    IF tt = NoList \/ Len(tt) = 0
    THEN [kind |-> "noClasses", studentId |-> id]
    ELSE LET timeSlots == StudentTimeSlots(tt)
         IN  [kind      |-> "table",
              studentId |-> id,
              timeSlots |-> timeSlots,
              rows      |-> StudentRows(tt),
              grid      |-> PlaceEntries(EmptyGrid(timeSlots), tt)]

\* what the component returns: one of the two messages, or the table
StudentTimetable(id, tt) ==
    IF tt = NoList \/ Len(tt) = 0
    THEN [kind |-> "noClasses", studentId |-> id]
    ELSE LET timeSlots == StudentTimeSlots(tt)
         IN  IF Len(timeSlots) = 0
             THEN [kind |-> "noTimeSlots", studentId |-> id]
             ELSE [kind      |-> "table",
                   studentId |-> id,
                   timeSlots |-> timeSlots,
                   rows      |-> StudentRows(tt),
                   grid      |-> PlaceEntries(EmptyGrid(timeSlots), tt)]

\* nothing rendered (the component is not mounted, or has not run yet)
NotRendered == [kind |-> "none"]

----------------------------------------------------------------------------
(* part_002: the grouped MasterTimetable *)

\* the weekday list of the master renderer; it has no Sunday
dayOrder == <<Monday, Tuesday, Wednesday, Thursday, Friday, Saturday>>

Unknown == <<"U", "n", "k", "n", "o", "w", "n">>

\* the section key with the || "Unknown" left out
SectionOf_NoDefault(rec) == rec.Group

\* rec["Batch/Group ID"] || "Unknown"
SectionOf(rec) == IF Falsy(rec.Group) THEN Unknown ELSE rec.Group

\* records.forEach(rec => { if (!grouped[section]) grouped[section] = [];
\* grouped[section].push(rec) }): the object's string keys in the order of
\* their creation, each with its array
RECURSIVE Grouped(_)
Grouped(recs) ==
    IF recs = <<>> THEN <<>>
    ELSE LET acc     == Grouped(SubSeq(recs, 1, Len(recs) - 1))
             rec     == recs[Len(recs)]
             section == SectionOf(rec)
         IN  IF \E i \in 1..Len(acc) : acc[i][1] = section
             THEN LET i == CHOOSE k \in 1..Len(acc) : acc[k][1] = section
                  IN  [acc EXCEPT ![i][2] = Append(@, rec)]
             ELSE Append(acc, <<section, <<rec>>>>)

\* 2^32 - 2 in decimal
MaxArrayIndex == <<"4", "2", "9", "4", "9", "6", "7", "2", "9", "4">>

\* a <= b for two digit strings of the same length
DigitsLeq(a, b) ==
    \/ a = b
    \/ \E i \in 1..Len(a) :
           /\ DigitValue(a[i]) < DigitValue(b[i])
           /\ \A j \in 1..(i - 1) : a[j] = b[j]

\* a property key that is an array index: the canonical decimal form of an
\* integer from 0 to 2^32 - 2
IsArrayIndex(key) ==
    /\ Len(key) > 0
    /\ \A i \in 1..Len(key) : key[i] \in Digits
    /\ (Len(key) = 1 \/ key[1] # "0")
    /\ \/ Len(key) < Len(MaxArrayIndex)
       \/ Len(key) = Len(MaxArrayIndex) /\ DigitsLeq(key, MaxArrayIndex)

\* Object.entries(obj) of an ordinary object (OrdinaryOwnPropertyKeys): the
\* array-index keys in ascending numeric order, then the other string keys
\* in the order of their creation
ObjectEntries(props) ==
    LET index  == SelectSeq(props, LAMBDA p : IsArrayIndex(p[1]))
        others == SelectSeq(props, LAMBDA p : ~IsArrayIndex(p[1]))
    IN  Values(SortByKey([i \in 1..Len(index) |->
                             <<ParseInt(index[i][1]), index[i]>>])) \o others

\* Array.from(new Set(entries.map(t => t.Day)))
\*   .sort((a, b) => dayOrder.indexOf(a) - dayOrder.indexOf(b))
MasterDays(entries) ==
    LET days == Distinct([i \in 1..Len(entries) |-> entries[i].Day])
    IN  Values(SortByKey([i \in 1..Len(days) |->
                             <<IndexOf(dayOrder, days[i]), days[i]>>]))

\* t["Time"] || t["Time Slot"] || ""
MasterSlotField(t) ==
    IF ~Falsy(t.Time) THEN t.Time
    ELSE IF ~Falsy(t.TimeSlot) THEN t.TimeSlot
    ELSE <<>>

\* Array.from(new Set(entries.map(..))).filter(Boolean)
\*   .sort((a, b) => toMinutes(a) - toMinutes(b))
MasterTimeSlots(entries) ==
    LET all   == Distinct([i \in 1..Len(entries) |->
                              MasterSlotField(entries[i])])
        slots == SelectSeq(all, LAMBDA x : ~Falsy(x))
    IN  Values(SortByKey([i \in 1..Len(slots) |->
                             <<toMinutesMaster(slots[i]), slots[i]>>]))

\* grid[d][slot] = null for every row and column
MasterEmptyGrid(days, timeSlots) ==
    [d \in Range(days) |-> [slot \in Range(timeSlots) |-> <<>>]]

\* entries.forEach(e => { const slot = ..; if (slot) grid[e.Day][slot] = e })
RECURSIVE MasterPlaceEntries(_, _)
MasterPlaceEntries(grid, entries) ==
    IF entries = <<>> THEN grid
    ELSE LET e    == Head(entries)
             slot == MasterSlotField(e)
         IN  MasterPlaceEntries(
                 IF Falsy(slot) THEN grid
                 ELSE [grid EXCEPT ![e.Day][slot] = <<e>>],
                 Tail(entries))

\* the table rendered for one [section, entries] pair
SectionTable(pair) ==
    LET entries   == pair[2]
        days      == MasterDays(entries)
        timeSlots == MasterTimeSlots(entries)
    IN  [section   |-> pair[1],
         entries   |-> entries,
         rows      |-> days,
         timeSlots |-> timeSlots,
         grid      |-> MasterPlaceEntries(MasterEmptyGrid(days, timeSlots),
                                          entries)]

\* what the component returns: the error text, the "No timetable loaded
\* yet." line, and one table per entry of Object.entries(grouped)
MasterTimetable(recs, loading, err) ==
    LET pairs == ObjectEntries(Grouped(recs))
    IN  [kind      |-> "master",
         error     |-> err,
         notLoaded |-> (~loading /\ Len(recs) = 0 /\ err = ""),
         sections  |-> [i \in 1..Len(pairs) |-> SectionTable(pairs[i])]]

----------------------------------------------------------------------------
(* The page: what is mounted, and what each component shows *)

\* GenerateButton is on the page: always in the flat App; in the staged App
\* only on the landing stage, once the heading has finished
GenerateMounted ==
    IF revision = "staged" THEN ~generated /\ showButton ELSE TRUE

\* StudentLookup renders StudentTimetable only for a non-empty list
LookupRender(gen, id, tt) ==
    IF gen /\ Len(tt) > 0 THEN StudentTimetable(id, tt) ELSE NotRendered

MasterRender(gen, recs, loading, err) ==
    IF gen THEN MasterTimetable(recs, loading, err) ELSE NotRendered

GenerateFailedMsg == "Failed to generate timetable."
GeneratedMsg == "Timetable generated!"
EnterIdMsg == "Please enter a student ID"
LookupFailedMsg == "Could not fetch timetable for this student."
MasterFailedMsg == "Failed to fetch master timetable. Did you run /generate?"

----------------------------------------------------------------------------
(* Inputs *)

SeqsUpTo(S, n) == UNION {[1..k -> S] : k \in 0..n}

LabelChars == {"1", "5", ":", "-", " ", "_", EnDash}

LabelPrefixes ==
    {<<>>, <<"1">>, <<" ">>, Monday, Sunday \o <<"_">>,
     Sunday \o <<"_", "1">>}

\* the labels handed to the helpers: a prefix and a free part
Labels ==
    {pre \o body : pre \in LabelPrefixes,
                   body \in SeqsUpTo(LabelChars, MaxLabelLen)}

Slot0900 == <<"9", ":", "0", "0", "-", "1", "0", ":", "0", "0">>
Slot0900Short == <<"9", ":", "0", "0", "-", "9", ":", "3", "0">>
Slot1000 == <<"1", "0", ":", "0", "0", "-", "1", "1", ":", "0", "0">>
SlotTBA == <<"T", "B", "A">>
Funday == <<"F", "u", "n", "d", "a", "y">>

\* a TimetableEntry; an absent optional field is Undefined
Entry(group, course, day, time, timeSlot) ==
    [Group |-> group, Course |-> course, Day |-> day, Time |-> time,
     TimeSlot |-> timeSlot]

\* the records a student list is drawn from: plain and weekday-prefixed
\* labels, two labels of one start time, a malformed label, a label that is
\* only a prefix, an empty and an absent "Time Slot", an unknown day
StudentEntries ==
    { Entry(Undefined, "c1", Monday, Undefined, Slot1000),
      Entry(Undefined, "c2", Monday, Undefined, Monday \o <<"_">> \o Slot1000),
      Entry(Undefined, "c3", Monday, Undefined, Slot1000),
      Entry(Undefined, "c1", Tuesday, Undefined, Slot0900),
      Entry(Undefined, "c2", Monday, Undefined, Slot0900Short),
      Entry(Undefined, "c3", Sunday, Slot1000, Undefined),
      Entry(Undefined, "c1", Monday, Slot0900, <<>>),
      Entry(Undefined, "c3", Funday, Undefined, Slot1000),
      Entry(Undefined, "c2", Tuesday, Undefined, SlotTBA),
      Entry(Undefined, "c1", Monday, Undefined, Undefined),
      Entry(Undefined, "c2", Tuesday, Undefined, Tuesday \o <<"_">>) }

StudentIds == {"s1", "s2"}

\* the group identifiers of the master records: absent, empty, the literal
\* "Unknown", letters, and numeric-looking ones
Groups ==
    {Undefined, <<>>, Unknown, <<"B">>, <<"A">>, <<"2">>, <<"1", "0">>,
     <<"0", "1">>}

MasterEntries ==
    {Entry(g, "c1", Monday, Slot1000, Undefined) : g \in Groups}
        \cup {Entry(g, "c2", Sunday, Undefined, Slot0900) : g \in Groups}

\* the bodies GET /timetable/:id answers with in the page model; NoList is
\* a body without the field
StudentPayloads ==
    { NoList, <<>>,
      <<Entry(Undefined, "c1", Monday, Undefined, Slot1000)>>,
      <<Entry(Undefined, "c1", Tuesday, Undefined, Slot0900),
        Entry(Undefined, "c2", Monday, Undefined, Slot0900Short),
        Entry(Undefined, "c3", Monday, Undefined, Slot0900Short)>> }

\* the bodies GET /master answers with in the page model
MasterPayloads ==
    { NoList, <<>>,
      <<Entry(<<"A">>, "c1", Monday, Slot1000, Undefined)>>,
      <<Entry(<<"2">>, "c1", Monday, Slot1000, Undefined),
        Entry(<<"1", "0">>, "c2", Sunday, Undefined, Slot0900)>> }

NoResult == [fn |-> "none"]

----------------------------------------------------------------------------
(* The page model: App, GenerateButton, StudentLookup, MasterTimetable *)

helperVars == <<label, result>>
appVars == <<showButton, generated, revision>>
generateVars == <<genLoading, genInFlight>>
lookupVars ==
    <<studentId, timetable, lookupLoading, lookupInFlight, lookupHistory,
      studentView>>

\* The history of StudentLookup, which the program does not keep: the id the
\* search was issued for whose outcome timetable holds, whether that search
\* is the most recently issued one, and whether the most recently issued
\* search is still in flight (it is then the last of lookupInFlight)
NoHistory == [shownId |-> "", shownIsLatest |-> FALSE, latestPending |-> FALSE]

\* the history once request i has settled and set timetable
Settled(i) ==
    LET latest == lookupHistory.latestPending /\ i = Len(lookupInFlight)
    IN  [shownId       |-> lookupInFlight[i],
         shownIsLatest |-> latest,
         latestPending |-> lookupHistory.latestPending /\ ~latest]
masterVars == <<records, masterLoading, error, masterInFlight, masterView>>

\* every component in its state after construction, nothing in flight
PageIdle ==
    /\ showButton = FALSE
    /\ generated = FALSE
    /\ genLoading = FALSE
    /\ genInFlight = 0
    /\ lookupLoading = FALSE
    /\ lookupInFlight = <<>>
    /\ lookupHistory = NoHistory
    /\ masterLoading = FALSE
    /\ error = ""
    /\ masterInFlight = 0
    /\ alertMsg = ""

Init ==
    /\ PageIdle
    /\ revision \in {"staged", "flat"}
    /\ label = <<>>
    /\ result = NoResult
    /\ studentId = ""
    /\ timetable = <<>>
    /\ records = <<>>
    /\ studentView = NotRendered
    /\ masterView = NotRendered

\* TypewriterHeading has shown its whole text: onDone() sets showButton
TypewriterDone ==
    /\ revision = "staged"
    /\ ~generated
    /\ ~showButton
    /\ showButton' = TRUE
    /\ alertMsg' = ""
    /\ UNCHANGED <<helperVars, generated, revision, generateVars, lookupVars,
                   masterVars>>

\* handleGenerate, window.confirm answered with Cancel
GenerateDeclined ==
    /\ GenerateMounted
    /\ ~genLoading
    /\ alertMsg' = ""
    /\ UNCHANGED <<helperVars, appVars, generateVars, lookupVars, masterVars>>

\* handleGenerate, window.confirm answered with OK: setLoading(true) and the
\* GET /generate goes out
GenerateConfirmed ==
    /\ GenerateMounted
    /\ ~genLoading
    /\ genInFlight < MaxInFlight
    /\ genLoading' = TRUE
    /\ genInFlight' = genInFlight + 1
    /\ alertMsg' = ""
    /\ UNCHANGED <<helperVars, appVars, lookupVars, masterVars>>

\* the GET /generate resolves: alert, onGenerated(), finally setLoading(false);
\* the dashboard is mounted by the render that follows
GenerateSucceeds ==
    /\ genInFlight > 0
    /\ genInFlight' = genInFlight - 1
    /\ genLoading' = FALSE
    /\ generated' = TRUE
    /\ alertMsg' = GeneratedMsg
    /\ studentView' = LookupRender(TRUE, studentId, timetable)
    /\ masterView' = MasterRender(TRUE, records, masterLoading, error)
    /\ UNCHANGED <<helperVars, showButton, revision, studentId, timetable,
                   lookupLoading, lookupInFlight, lookupHistory, records,
                   masterLoading, error, masterInFlight>>

\* the catch branch calling onGenerated() as the try branch does
GenerateFails_CallsOnGenerated ==
    /\ genInFlight > 0
    /\ genInFlight' = genInFlight - 1
    /\ genLoading' = FALSE
    /\ generated' = TRUE
    /\ alertMsg' = GenerateFailedMsg
    /\ UNCHANGED <<helperVars, showButton, revision, lookupVars, masterVars>>

\* the GET /generate rejects: alert, finally setLoading(false)
GenerateFails ==
    /\ genInFlight > 0
    /\ genInFlight' = genInFlight - 1
    /\ genLoading' = FALSE
    /\ alertMsg' = GenerateFailedMsg
    /\ UNCHANGED <<helperVars, appVars, lookupVars, masterVars>>

\* onChange of the input: setStudentId(e.target.value)
SetStudentId(id) ==
    /\ generated
    /\ id # studentId
    /\ studentId' = id
    /\ studentView' = LookupRender(generated, id, timetable)
    /\ alertMsg' = ""
    /\ UNCHANGED <<helperVars, appVars, generateVars, timetable, lookupLoading,
                   lookupInFlight, lookupHistory, masterVars>>

\* handleSearch with an empty studentId: alert and return
SearchRejected ==
    /\ generated
    /\ studentId = ""
    /\ alertMsg' = EnterIdMsg
    /\ UNCHANGED <<helperVars, appVars, generateVars, lookupVars, masterVars>>

\* handleSearch: setLoading(true) and the GET /timetable/${studentId} goes
\* out; the button is not disabled while loading
SearchIssued ==
    /\ generated
    /\ studentId # ""
    /\ Len(lookupInFlight) < MaxInFlight
    /\ lookupLoading' = TRUE
    /\ lookupInFlight' = Append(lookupInFlight, studentId)
    /\ lookupHistory' = [lookupHistory EXCEPT !.shownIsLatest = FALSE,
                                              !.latestPending = TRUE]
    /\ alertMsg' = ""
    /\ UNCHANGED <<helperVars, appVars, generateVars, studentId, timetable,
                   studentView, masterVars>>

Remove(seq, i) == SubSeq(seq, 1, i - 1) \o SubSeq(seq, i + 1, Len(seq))

\* request i resolves: setTimetable(res.data.timetable || []), finally
\* setLoading(false)
SearchSucceeds(i, body) ==
    /\ i \in 1..Len(lookupInFlight)
    /\ timetable' = IF body = NoList THEN <<>> ELSE body
    /\ lookupLoading' = FALSE
    /\ lookupInFlight' = Remove(lookupInFlight, i)
    /\ lookupHistory' = Settled(i)
    /\ studentView' = LookupRender(generated, studentId, timetable')
    /\ alertMsg' = ""
    /\ UNCHANGED <<helperVars, appVars, generateVars, studentId, masterVars>>

\* request i rejects: alert, setTimetable([]), finally setLoading(false)
SearchFails(i) ==
    /\ i \in 1..Len(lookupInFlight)
    /\ timetable' = <<>>
    /\ lookupLoading' = FALSE
    /\ lookupInFlight' = Remove(lookupInFlight, i)
    /\ lookupHistory' = Settled(i)
    /\ studentView' = LookupRender(generated, studentId, timetable')
    /\ alertMsg' = LookupFailedMsg
    /\ UNCHANGED <<helperVars, appVars, generateVars, studentId, masterVars>>

\* fetchMaster, the button being disabled while loading: setLoading(true),
\* setError(""), and the GET /master goes out
FetchMaster ==
    /\ generated
    /\ ~masterLoading
    /\ masterInFlight < MaxInFlight
    /\ masterLoading' = TRUE
    /\ error' = ""
    /\ masterInFlight' = masterInFlight + 1
    /\ masterView' = MasterRender(generated, records, TRUE, "")
    /\ alertMsg' = ""
    /\ UNCHANGED <<helperVars, appVars, generateVars, lookupVars, records>>

\* the GET /master resolves: setRecords(res.data.master_timetable || []),
\* finally setLoading(false)
FetchMasterSucceeds(body) ==
    /\ masterInFlight > 0
    /\ records' = IF body = NoList THEN <<>> ELSE body
    /\ masterLoading' = FALSE
    /\ masterInFlight' = masterInFlight - 1
    /\ masterView' = MasterRender(generated, records', FALSE, error)
    /\ alertMsg' = ""
    /\ UNCHANGED <<helperVars, appVars, generateVars, lookupVars, error>>

\* the GET /master rejects: setError(..), finally setLoading(false); records
\* is not assigned
FetchMasterFails ==
    /\ masterInFlight > 0
    /\ error' = MasterFailedMsg
    /\ masterLoading' = FALSE
    /\ masterInFlight' = masterInFlight - 1
    /\ masterView' = MasterRender(generated, records, FALSE, MasterFailedMsg)
    /\ alertMsg' = ""
    /\ UNCHANGED <<helperVars, appVars, generateVars, lookupVars, records>>

Next ==
    \/ TypewriterDone
    \/ GenerateDeclined
    \/ GenerateConfirmed
    \/ GenerateSucceeds
    \/ GenerateFails
    \/ \E id \in StudentIds \cup {""} : SetStudentId(id)
    \/ SearchRejected
    \/ SearchIssued
    \/ \E i \in 1..MaxInFlight, body \in StudentPayloads : SearchSucceeds(i, body)
    \/ \E i \in 1..MaxInFlight : SearchFails(i)
    \/ FetchMaster
    \/ \E body \in MasterPayloads : FetchMasterSucceeds(body)
    \/ FetchMasterFails

Spec == Init /\ [][Next]_vars

----------------------------------------------------------------------------
(* The helpers on their own: a label is drawn, one helper is applied *)

InitHelpers ==
    /\ PageIdle
    /\ revision = "staged"
    /\ label \in Labels
    /\ result = NoResult
    /\ studentId = ""
    /\ timetable = <<>>
    /\ records = <<>>
    /\ studentView = NotRendered
    /\ masterView = NotRendered

CallSanitizeSlot ==
    /\ result = NoResult
    /\ result' = [fn |-> "sanitizeSlot", value |-> sanitizeSlot(label)]
    /\ UNCHANGED <<label, appVars, generateVars, lookupVars, masterVars,
                   alertMsg>>

CallToMinutes ==
    /\ result = NoResult
    /\ result' = [fn |-> "toMinutes", value |-> toMinutes(label)]
    /\ UNCHANGED <<label, appVars, generateVars, lookupVars, masterVars,
                   alertMsg>>

CallToMinutesMaster ==
    /\ result = NoResult
    /\ result' = [fn |-> "toMinutesMaster", value |-> toMinutesMaster(label)]
    /\ UNCHANGED <<label, appVars, generateVars, lookupVars, masterVars,
                   alertMsg>>

NextHelpers == CallSanitizeSlot \/ CallToMinutes \/ CallToMinutesMaster

SpecHelpers == InitHelpers /\ [][NextHelpers]_vars

----------------------------------------------------------------------------
(* StudentTimetable on its own: the props are drawn, the component runs *)

InitStudent ==
    /\ PageIdle
    /\ revision = "staged"
    /\ label = <<>>
    /\ result = NoResult
    /\ studentId \in StudentIds
    /\ timetable \in SeqsUpTo(StudentEntries, MaxEntries) \cup {NoList}
    /\ records = <<>>
    /\ studentView = NotRendered
    /\ masterView = NotRendered

RenderStudentTimetable ==
    /\ studentView = NotRendered
    /\ studentView' = StudentTimetable(studentId, timetable)
    /\ UNCHANGED <<helperVars, appVars, generateVars, studentId, timetable,
                   lookupLoading, lookupInFlight, lookupHistory, masterVars,
                   alertMsg>>

NextStudent == RenderStudentTimetable

SpecStudent == InitStudent /\ [][NextStudent]_vars

----------------------------------------------------------------------------
(* MasterTimetable on its own: records are drawn, the component renders *)

InitMaster ==
    /\ PageIdle
    /\ revision = "staged"
    /\ label = <<>>
    /\ result = NoResult
    /\ studentId = ""
    /\ timetable = <<>>
    /\ records \in SeqsUpTo(MasterEntries, MaxRecords)
    /\ studentView = NotRendered
    /\ masterView = NotRendered

RenderMasterTimetable ==
    /\ masterView = NotRendered
    /\ masterView' = MasterTimetable(records, masterLoading, error)
    /\ UNCHANGED <<helperVars, appVars, generateVars, lookupVars, records,
                   masterLoading, error, masterInFlight, alertMsg>>

NextMaster == RenderMasterTimetable

SpecMaster == InitMaster /\ [][NextMaster]_vars

----------------------------------------------------------------------------
(* Properties of the label helpers (checked under SpecHelpers) *)

WeekdayNames ==
    {Monday, Tuesday, Wednesday, Thursday, Friday, Saturday, Sunday}

\* s is "<Weekday>_<rest>" with d the weekday name
HasPrefix(s, d) ==
    Len(s) > Len(d) /\ SubSeq(s, 1, Len(d)) = d /\ s[Len(d) + 1] = "_"

HasWeekdayPrefix(s) == \E d \in WeekdayNames : HasPrefix(s, d)

RestAfterWeekday(s) ==
    LET d == CHOOSE w \in WeekdayNames : HasPrefix(s, w)
    IN  SubSeq(s, Len(d) + 2, Len(s))

\* C6: sanitizeSlot returns <rest> for every label "<Weekday>_<rest>" whose
\* prefix is one of the seven weekday names, and returns every other
\* non-empty label unchanged.
C6_SanitizeSlot ==
    result.fn = "sanitizeSlot" =>
        IF HasWeekdayPrefix(label)
        THEN result.value = RestAfterWeekday(label)
        ELSE label # <<>> => result.value = label

\* C6 witness: sanitizeSlot was applied to "Sunday_1:15" and returned "1:15".
C6_Witness ==
    /\ result.fn = "sanitizeSlot"
    /\ label = Sunday \o <<"_", "1", ":", "1", "5">>
    /\ result.value = <<"1", ":", "1", "5">>

\* s starts with H:MM (n = 1) or HH:MM (n = 2)
TimeAt(s, n) ==
    /\ Len(s) >= n + 3
    /\ \A i \in 1..n : s[i] \in Digits
    /\ s[n + 1] = ":"
    /\ s[n + 2] \in Digits
    /\ s[n + 3] \in Digits

StartsWithTime(s) == TimeAt(s, 1) \/ TimeAt(s, 2)

\* hours * 60 + minutes of the time s starts with
StartMinutes(s) ==
    IF TimeAt(s, 1)
    THEN DigitValue(s[1]) * 60 + DigitValue(s[3]) * 10 + DigitValue(s[4])
    ELSE (DigitValue(s[1]) * 10 + DigitValue(s[2])) * 60
             + DigitValue(s[4]) * 10 + DigitValue(s[5])

\* s without its leading whitespace
RECURSIVE WithoutLeadingSpace(_)
WithoutLeadingSpace(s) ==
    IF Len(s) > 0 /\ s[1] = " " THEN WithoutLeadingSpace(Tail(s)) ELSE s

\* C7 as stated: both variants of toMinutes return hours*60 + minutes for a
\* label that starts with H:MM or HH:MM, and 0 for every label that does not.
C7_AsStated ==
    result.fn \in {"toMinutes", "toMinutesMaster"} =>
        result.value = IF StartsWithTime(label) THEN StartMinutes(label) ELSE 0

\* C7 as amended: both variants return hours*60 + minutes for a label that
\* starts with H:MM or HH:MM; for any other label the master variant returns
\* 0, and the student variant returns 0 unless the label starts with H:MM or
\* HH:MM once its leading whitespace is removed, when it returns hours*60 +
\* minutes of that time.
C7_ToMinutes ==
    /\ result.fn = "toMinutesMaster" =>
           result.value =
               IF StartsWithTime(label) THEN StartMinutes(label) ELSE 0
    /\ result.fn = "toMinutes" =>
           LET s == WithoutLeadingSpace(label)
           IN  result.value = IF StartsWithTime(s) THEN StartMinutes(s) ELSE 0

\* C7 witness: the student toMinutes was applied to " 1:15", which does not
\* start with a time, and returned 75.
C7_Witness ==
    /\ result.fn = "toMinutes"
    /\ label = <<" ", "1", ":", "1", "5">>
    /\ result.value = 75

----------------------------------------------------------------------------
(* Properties of StudentTimetable (checked under SpecStudent) *)

\* the normalized slot label of a record
NormalizedSlot(t) == sanitizeSlot(SlotField(t))

\* the positions of the records of the list that belong to cell [slot][day]
Hits(slot, day) ==
    {i \in 1..Len(timetable) :
        NormalizedSlot(timetable[i]) = slot /\ timetable[i].Day = day}

Largest(S) == CHOOSE m \in S : \A k \in S : k <= m

Smallest(S) == CHOOSE m \in S : \A k \in S : m <= k

\* C1: the built grid has one cell per column and weekday; each cell holds
\* the last record, in input order, whose normalized slot label and Day are
\* the cell's, and is empty when there is none.
C1_LastRecordWins ==
    studentView.kind = "table" =>
        /\ DOMAIN studentView.grid = Range(studentView.timeSlots)
        /\ \A slot \in Range(studentView.timeSlots) :
               /\ DOMAIN studentView.grid[slot] = WeekdayNames
               /\ \A day \in WeekdayNames :
                      studentView.grid[slot][day] =
                          IF Hits(slot, day) = {} THEN <<>>
                          ELSE <<timetable[Largest(Hits(slot, day))]>>

\* C1 witness: a table was built from a list in which two different records
\* share a cell, and the cell holds the later one.
C1_Witness ==
    /\ studentView.kind = "table"
    /\ \E slot \in Range(studentView.timeSlots), day \in WeekdayNames :
           \E i, j \in Hits(slot, day) :
               /\ i < j
               /\ j = Largest(Hits(slot, day))
               /\ timetable[i] # timetable[j]
               /\ studentView.grid[slot][day] = <<timetable[j]>>

\* C3: a rendered student table has exactly seven rows, Monday to Sunday in
\* that order.
C3_SevenRows ==
    studentView.kind = "table" =>
        studentView.rows = <<Monday, Tuesday, Wednesday, Thursday, Friday,
                             Saturday, Sunday>>

\* C3 witness: a table was rendered from a list with no record on some
\* weekday, and that weekday is a row of it.
C3_Witness ==
    /\ studentView.kind = "table"
    /\ \E d \in WeekdayNames :
           /\ \A i \in 1..Len(timetable) : timetable[i].Day # d
           /\ Includes(studentView.rows, d)

\* the non-empty normalized slot labels of a record list
LabelsPresent(tt) == {NormalizedSlot(tt[i]) : i \in 1..Len(tt)} \ {<<>>}

\* the position at which label s first appears in the list
FirstAppearance(s) ==
    Smallest({i \in 1..Len(timetable) : NormalizedSlot(timetable[i]) = s})

\* the columns are the labels present, each once, in ascending start-minute
ColumnsAscending(cols) ==
    /\ Range(cols) = LabelsPresent(timetable)
    /\ Cardinality(Range(cols)) = Len(cols)
    /\ \A i, j \in 1..Len(cols) :
           i < j => toMinutes(cols[i]) <= toMinutes(cols[j])

\* the rearrangements of a list
Rearrangements(tt) ==
    {[i \in 1..Len(tt) |-> tt[p[i]]] :
        p \in {q \in [1..Len(tt) -> 1..Len(tt)] :
                  \A a, b \in 1..Len(tt) : a # b => q[a] # q[b]}}

SameColumnsForEveryOrder ==
    \A tt \in Rearrangements(timetable) :
        StudentTimeSlots(tt) = studentView.timeSlots

\* C5 as stated: the columns are the distinct non-empty normalized labels,
\* each once, ascending by start-minute, and every permutation of the record
\* list gives the same column sequence.
C5_AsStated ==
    studentView.kind = "table" =>
        /\ ColumnsAscending(studentView.timeSlots)
        /\ SameColumnsForEveryOrder

\* C5 as amended: the columns are the distinct non-empty normalized labels,
\* each once, ascending by start-minute, labels of one start-minute in the
\* order of their first appearance in the list; every permutation of the
\* list gives the same column sequence when no two of its labels share a
\* start-minute.
C5_ColumnOrder ==
    studentView.kind = "table" =>
        LET cols == studentView.timeSlots
        IN  /\ ColumnsAscending(cols)
            /\ \A i, j \in 1..Len(cols) :
                   i < j /\ toMinutes(cols[i]) = toMinutes(cols[j])
                       => FirstAppearance(cols[i]) < FirstAppearance(cols[j])
            /\ (\A a, b \in LabelsPresent(timetable) :
                    a # b => toMinutes(a) # toMinutes(b))
                   => SameColumnsForEveryOrder

\* C5 witness: a table with three columns, two of one start-minute, built
\* from a list whose labels were not in ascending order.
C5_Witness ==
    /\ studentView.kind = "table"
    /\ Len(studentView.timeSlots) = 3
    /\ \E i, j \in 1..3 :
           /\ i < j
           /\ toMinutes(studentView.timeSlots[i])
                  = toMinutes(studentView.timeSlots[j])
    /\ studentView.timeSlots # CollectSlots(timetable)

\* C11: for an empty or absent record list StudentTimetable returns the "No
\* classes found for student" message and builds no grid; for a non-empty
\* list in which no record has a non-empty slot label it returns the "No
\* time slots available" message; the component always returns.
C11_EmptyInput ==
    studentView # NotRendered =>
        /\ studentView.kind \in {"noClasses", "noTimeSlots", "table"}
        /\ (timetable = NoList \/ timetable = <<>>) =>
               studentView = [kind |-> "noClasses", studentId |-> studentId]
        /\ (timetable # NoList /\ timetable # <<>>
               /\ LabelsPresent(timetable) = {}) =>
               studentView = [kind |-> "noTimeSlots", studentId |-> studentId]

\* C11 witness: the component was run on a non-empty list none of whose
\* records has a slot label left after normalization, one of them with the
\* raw label "Tuesday_", and returned the "No time slots" message.
C11_Witness ==
    /\ studentView.kind = "noTimeSlots"
    /\ timetable # NoList
    /\ Len(timetable) = 2
    /\ \E i \in 1..Len(timetable) :
           timetable[i].TimeSlot = Tuesday \o <<"_">>

----------------------------------------------------------------------------
(* Properties of MasterTimetable (checked under SpecMaster) *)

\* the group identifier of a record: "Unknown" when the field is absent or
\* empty
GroupId(rec) ==
    IF rec.Group = Undefined \/ rec.Group = <<>> THEN Unknown ELSE rec.Group

GroupsPresent == {GroupId(records[i]) : i \in 1..Len(records)}

\* the group identifiers of the rendered tables, in the order rendered
SectionNames ==
    [k \in 1..Len(masterView.sections) |-> masterView.sections[k].section]

\* the records placed in the cells of table k
CellRecords(k) ==
    LET grid == masterView.sections[k].grid
    IN  UNION {UNION {Range(grid[d][slot]) : slot \in DOMAIN grid[d]} :
                  d \in DOMAIN grid}

\* C2: one table per distinct group identifier of the list (absent and empty
\* identifiers counting as "Unknown"), each built from the records of its own
\* group only, every record used by exactly one table.
C2_OneGridPerGroup ==
    masterView.kind = "master" =>
        /\ Range(SectionNames) = GroupsPresent
        /\ Len(SectionNames) = Cardinality(GroupsPresent)
        /\ \A k \in 1..Len(SectionNames) :
               /\ masterView.sections[k].entries =
                      SelectSeq(records,
                                LAMBDA r : GroupId(r) = SectionNames[k])
               /\ \A r \in CellRecords(k) : GroupId(r) = SectionNames[k]
        /\ \A i \in 1..Len(records) :
               Cardinality({k \in 1..Len(SectionNames) :
                               records[i] \in
                                   Range(masterView.sections[k].entries)}) = 1

\* C2 witness: a list spanning three group identifiers, one of them
\* "Unknown" by default, was rendered as three tables.
C2_Witness ==
    /\ masterView.kind = "master"
    /\ Cardinality(GroupsPresent) = 3
    /\ Len(masterView.sections) = 3
    /\ \E i \in 1..Len(records) : records[i].Group = Undefined

\* C4: the table of every group of the master view has the seven weekdays
\* as its rows, Monday to Sunday in that order.
C4_MasterSevenRows ==
    masterView.kind = "master" =>
        \A k \in 1..Len(masterView.sections) :
            masterView.sections[k].rows =
                <<Monday, Tuesday, Wednesday, Thursday, Friday, Saturday,
                  Sunday>>

\* the position at which group identifier g first appears in records
FirstRecordOf(g) ==
    Smallest({i \in 1..Len(records) : GroupId(records[i]) = g})

\* C10: the tables are emitted in the order in which their group identifiers
\* first appear in the record list, numeric-looking identifiers included.
C10_DiscoveryOrder ==
    masterView.kind = "master" =>
        \A a, b \in 1..Len(SectionNames) :
            a < b => FirstRecordOf(SectionNames[a])
                         < FirstRecordOf(SectionNames[b])

----------------------------------------------------------------------------
(* Properties of the page (checked under Spec) *)

\* C8: no component has more than one of its requests in flight.
C8_SingleRequestInFlight ==
    /\ genInFlight <= 1
    /\ Len(lookupInFlight) <= 1
    /\ masterInFlight <= 1

\* C9: once a student fetch or a master fetch has failed and its failure
\* message is up, the record list of that component is empty.
C9_FailedFetchClearsList ==
    /\ alertMsg = LookupFailedMsg => timetable = <<>>
    /\ error = MasterFailedMsg => records = <<>>

\* C12: when a student fetch succeeds with an empty record list, the page
\* then shows the renderer's "No classes found for student" message.
C12_NoDataShown ==
    [][(\E i \in 1..MaxInFlight, body \in {NoList, <<>>} :
            SearchSucceeds(i, body))
           => studentView'.kind = "noClasses"]_vars

\* the dashboard (StudentLookup, MasterTimetable) is on the page
DashboardVisible == studentView # NotRendered \/ masterView # NotRendered

\* C13: generated starts false, is set only by the step in which a generate
\* request completes successfully (never by a failed request or a declined
\* confirmation), never returns to false, and the dashboard is visible only
\* when it is true.
C13_GenerationGating ==
    /\ ~generated
    /\ [](DashboardVisible => generated)
    /\ [][/\ generated => generated'
          /\ (~generated /\ generated') => GenerateSucceeds]_vars

\* C13 witness: a generate request has just succeeded and the dashboard is
\* on the page.
C13_Witness ==
    /\ generated
    /\ alertMsg = GeneratedMsg
    /\ masterView.kind = "master"

\* C14: in each component the loading flag is true exactly when a request
\* of that component is in flight.
C14_LoadingTracksRequest ==
    /\ genLoading <=> genInFlight > 0
    /\ lookupLoading <=> Len(lookupInFlight) > 0
    /\ masterLoading <=> masterInFlight > 0

\* C15: whenever a timetable is displayed it is the response to the most
\* recently issued search, and the student id of its heading is the id that
\* search was issued for.
C15_TimetableMatchesStudent ==
    studentView.kind = "table" =>
        /\ lookupHistory.shownIsLatest
        /\ studentView.studentId = lookupHistory.shownId

=============================================================================
